---- MODULE Spec2Model ----
(***************************************************************************)
(* Model of damowang-cxx/lg: a FastAPI service (app/main.py) that drives a *)
(* research pipeline graph (app/graph.py) through a durable execution      *)
(* engine with a SQLite checkpointer and exposes progress as an SSE event  *)
(* stream.                                                                 *)
(*                                                                         *)
(* The stage functions, the router, the graph wiring and the two stream    *)
(* generators are translated from src/app.  The execution engine itself    *)
(* (the compiled graph's stream/get_state and the checkpointer) is an      *)
(* imported library whose code is not part of the repository; its          *)
(* behaviour is modelled from sections 4.2-4.4 of spec.md.                 *)
(***************************************************************************)
EXTENDS Integers, Sequences, FiniteSets, TLC

VARIABLES
    store,      \* data/checkpoints.sqlite: thread id -> sequence of checkpoints
    invs,       \* HTTP invocations (one generator gen() each), by slot
    executed,   \* history: per thread, the stages that completed, in order
    used,       \* thread ids already handed out by uuid4()
    restarts    \* history: number of process kills so far

vars == <<store, invs, executed, used, restarts>>

----------------------------------------------------------------------------
(* Bounds of the model                                                     *)

MaxSeeded == 2      \* thread ids the durable store may already hold
MaxFresh  == 1      \* further thread ids uuid4() can hand out
MaxInv    == 2      \* HTTP invocations per behaviour
MaxKills  == 1      \* process kills per behaviour

SeededIds == 1 .. MaxSeeded
ThreadIds == 1 .. (MaxSeeded + MaxFresh)
Slots     == 1 .. MaxInv

----------------------------------------------------------------------------
(* Python values                                                           *)

None    == [some |-> FALSE]
Some(v) == [some |-> TRUE, val |-> v]

\* dict.get(key): None when the key is absent
Get(d, k) == IF k \in DOMAIN d THEN Some(d[k]) ELSE None

\* shallow merge by field name; the update's fields overwrite
Merge(s, u) ==
    [k \in DOMAIN s \cup DOMAIN u |-> IF k \in DOMAIN u THEN u[k] ELSE s[k]]

\* Outcomes of calling a stage function
Update(u)     == [kind |-> "update", update |-> u]
Goto(g, u)    == [kind |-> "command", goto |-> g, update |-> u]
Suspend(p)    == [kind |-> "interrupt", payload |-> p]
Raise(e)      == [kind |-> "raise", error |-> e]

\* JSON values a client can send as ResumeRequest.value
JTrue  == [t |-> "bool", b |-> TRUE]
JFalse == [t |-> "bool", b |-> FALSE]
JOne   == [t |-> "number", n |-> 1]
ResumeValues == {JTrue, JFalse, JOne}

\* further JSON values: null, the string "true", an object
JNull    == [t |-> "null"]
JStrTrue == [t |-> "string", s |-> "true"]
JObject  == [t |-> "object", keys |-> {"approve"}]
JsonValues == ResumeValues \cup {JNull, JStrTrue, JObject}

\* bool(value) of Python
Truthy(value) ==
    CASE value.t = "bool"   -> value.b
      [] value.t = "number" -> value.n # 0
      [] value.t = "string" -> value.s # ""
      [] value.t = "object" -> value.keys # {}
      [] OTHER              -> FALSE

Topics == {"Roman Empire"}
Modes  == {"auto", "approval", "manual"}

----------------------------------------------------------------------------
(* app/llama_client.py                                                     *)

\* What the planner endpoint can answer to the POST of llama_chat.
Responses ==
    { [net |-> "unreachable", status |-> 0,   content |-> ""],
      [net |-> "ok",          status |-> 500, content |-> ""],
      [net |-> "ok",          status |-> 200, content |-> "not json"],
      [net |-> "ok",          status |-> 200, content |-> "{\"deliverables\": [\"concept_map\", \"citations\"]}"],
      [net |-> "ok",          status |-> 200, content |-> "{}"],
      [net |-> "ok",          status |-> 200, content |-> "42"] }

llama_chat(resp) ==
    IF resp.net # "ok" THEN Raise("ConnectionError")
    ELSE IF resp.status >= 400 THEN Raise("HTTPError")
    ELSE [kind |-> "return", value |-> resp.content]

planner_json(resp) == llama_chat(resp)

----------------------------------------------------------------------------
(* app/graph.py: stage functions                                           *)

\* A plan is a JSON value: its JSON type, whether Python treats it as true,
\* and for an object its keys with the fields the stages read.
Plan(json, truthy, keys, deliverables, topic, planner_error) ==
    [json |-> json, truthy |-> truthy, keys |-> keys,
     deliverables |-> deliverables, topic |-> topic,
     planner_error |-> planner_error]

\* json.loads on the contents the planner can answer with
json_loads(content) ==
    CASE content = "{\"deliverables\": [\"concept_map\", \"citations\"]}" ->
            [kind |-> "return",
             value |-> Plan("object", TRUE, {"deliverables"},
                            <<"concept_map", "citations">>, "", "")]
      [] content = "{}" ->
            [kind |-> "return", value |-> Plan("object", FALSE, {}, << >>, "", "")]
      [] content = "42" ->
            [kind |-> "return", value |-> Plan("number", TRUE, {}, << >>, "", "")]
      [] OTHER -> Raise("JSONDecodeError")

DefaultDeliverables == <<"issue_tree", "timeline", "controversy_map", "citations">>

\* the plan of the except branch of align_node
FallbackPlan(topic, e) ==
    Plan("object", TRUE,
         {"topic", "domain", "questions", "sources", "deliverables", "planner_error"},
         DefaultDeliverables, topic, e)

\* align_node without the try/except around the planner call
align_node_no_fallback(state, resp) ==
    IF "topic" \notin DOMAIN state THEN Raise("KeyError")
    ELSE LET content == planner_json(resp)
             parsed  == IF content.kind = "raise" THEN content
                        ELSE json_loads(content.value)
         IN  IF parsed.kind = "raise" THEN parsed
             ELSE Update([plan |-> parsed.value, status |-> "planned"])

align_node(state, resp) ==
    IF "topic" \notin DOMAIN state THEN Raise("KeyError")
    ELSE LET topic   == state["topic"]
             content == planner_json(resp)
             parsed  == IF content.kind = "raise" THEN content
                        ELSE json_loads(content.value)
         IN  IF parsed.kind = "raise"
             THEN Update([plan |-> FallbackPlan(topic, parsed.error),
                          status |-> "planned_fallback"])
             ELSE Update([plan |-> parsed.value, status |-> "planned"])

\* route_after_align that skips the approval for mode "auto" only
route_after_align_auto_only(state) ==
    IF Get(state, "mode") = Some("auto") THEN "retrieve" ELSE "approve_plan"

route_after_align(state) ==
    IF Get(state, "mode") = Some("approval") THEN "approve_plan" ELSE "retrieve"

\* approve_plan_node that routes a rejection to retrieve
approve_plan_node_reject_to_retrieve(state, resume) ==
    IF "plan" \notin DOMAIN state THEN Raise("KeyError")
    ELSE LET payload == [type |-> "approve_plan", plan |-> state["plan"]]
         IN  IF ~resume.some THEN Suspend(payload)
             ELSE IF resume.val = JTrue
                  THEN Goto("retrieve", [status |-> "approved"])
                  ELSE Goto("retrieve", [status |-> "rejected"])

\* approve_plan_node testing the truth value of the decision: if decision:
approve_plan_node_truthy(state, resume) ==
    IF "plan" \notin DOMAIN state THEN Raise("KeyError")
    ELSE LET payload == [type |-> "approve_plan", plan |-> state["plan"]]
         IN  IF ~resume.some THEN Suspend(payload)
             ELSE IF Truthy(resume.val)
                  THEN Goto("retrieve", [status |-> "approved"])
                  ELSE Goto("end", [status |-> "rejected"])

\* approve_plan_node that asks again after a rejection: goto="approve_plan"
approve_plan_node_ask_again(state, resume) ==
    IF "plan" \notin DOMAIN state THEN Raise("KeyError")
    ELSE LET payload == [type |-> "approve_plan", plan |-> state["plan"]]
         IN  IF ~resume.some THEN Suspend(payload)
             ELSE IF resume.val = JTrue
                  THEN Goto("retrieve", [status |-> "approved"])
                  ELSE Goto("approve_plan", [status |-> "rejected"])

\* approve_plan_node without the interrupt() call: it decides at once
approve_plan_node_no_interrupt(state, resume) ==
    IF "plan" \notin DOMAIN state THEN Raise("KeyError")
    ELSE IF resume.some /\ resume.val # JTrue
         THEN Goto("end", [status |-> "rejected"])
         ELSE Goto("retrieve", [status |-> "approved"])

\* resume is None on first entry (interrupt() suspends the graph) and
\* Some(value) when the stage is re-entered with the value of a resume.
approve_plan_node(state, resume) ==
    IF "plan" \notin DOMAIN state THEN Raise("KeyError")
    ELSE LET payload == [type |-> "approve_plan", plan |-> state["plan"]]
         IN  IF ~resume.some THEN Suspend(payload)
             ELSE IF resume.val = JTrue
                  THEN Goto("retrieve", [status |-> "approved"])
                  ELSE Goto("end", [status |-> "rejected"])

Evidence ==
    << [source_type |-> "web", title |-> "Example Source 1",
        url |-> "https://example.com/a", accessed_at |-> "2026-02-25",
        snippet |-> "web snippet",
        locator |-> [type |-> "url+text", hint |-> "paragraph:3"]],
       [source_type |-> "local", title |-> "Example Note 1",
        doc_id |-> "notion:xxxx", snippet |-> "note snippet",
        locator |-> [type |-> "doc+offset", offset |-> 1200, length |-> 80]] >>

retrieve_node(state) ==
    IF "plan" \notin DOMAIN state THEN Raise("KeyError")
    ELSE Update([evidence |-> Evidence, status |-> "retrieved"])

SeqToSet(s) == {s[i] : i \in DOMAIN s}

\* synthesize_node numbering the citations from 1: enumerate(evs, 1)
synthesize_node_ref_from_one(state) ==
    IF "topic" \notin DOMAIN state THEN Raise("KeyError")
    ELSE LET e   == Get(state, "evidence")
             evs == IF e.some THEN e.val ELSE << >>
             citations == [i \in DOMAIN evs |->
                              [ref_id |-> i, title |-> evs[i].title,
                               locator |-> evs[i].locator]]
         IN  Update([assets |-> [d \in {"citations"} |-> [list |-> citations]],
                     status |-> "done"])

synthesize_node(state) ==
    IF "topic" \notin DOMAIN state THEN Raise("KeyError")
    ELSE LET topic == state["topic"]
             p     == Get(state, "plan")
             \* plan = state.get("plan") or {}
             isDict == (~p.some) \/ (~p.val.truthy) \/ p.val.json = "object"
             \* plan.get("deliverables") or [...]
             got   == IF p.some /\ p.val.truthy /\ "deliverables" \in p.val.keys
                      THEN p.val.deliverables ELSE << >>
             deliverables == IF got = << >> THEN DefaultDeliverables ELSE got
             names == SeqToSet(deliverables) \ {"citations"}
             e     == Get(state, "evidence")
             evs   == IF e.some THEN e.val ELSE << >>
             citations == [i \in DOMAIN evs |->
                              [ref_id |-> i - 1, title |-> evs[i].title,
                               locator |-> evs[i].locator]]
             assets == [d \in names \cup {"citations"} |->
                          IF d = "citations"
                          THEN [list |-> citations]     \* the citations list
                          ELSE [type |-> d, topic |-> topic, status |-> "placeholder"]]
         IN  IF ~isDict THEN Raise("AttributeError")
             ELSE Update([assets |-> assets, status |-> "done"])

\* an "end" node that marks the thread: lambda state: {"status": "ended"}
end_node_marks_status(state) == Update([status |-> "ended"])

\* builder.add_node("end", lambda state: state)
end_node(state) == Update(state)

----------------------------------------------------------------------------
(* app/graph.py: build_graph                                               *)

END == "__end__"

Nodes == {"align", "approve_plan", "retrieve", "synthesize", "end"}

\* builder.add_edge(START, "align")
EntryPoint == "align"

\* The stage function registered under each node name.  Only align calls
\* the planner and only approve_plan reads a resume value.
Invoke(node, state, resume, resp) ==
    CASE node = "align"        -> align_node(state, resp)
      [] node = "approve_plan" -> approve_plan_node(state, resume)
      [] node = "retrieve"     -> retrieve_node(state)
      [] node = "synthesize"   -> synthesize_node(state)
      [] node = "end"          -> end_node(state)

\* build_graph without the edge retrieve -> synthesize
Successor_no_synthesize_edge(node, state, res) ==
    CASE res.kind = "command"  -> res.goto
      [] node = "align"        -> route_after_align(state)
      [] OTHER                 -> END

\* The edges: the stage that follows `node` once it returned `res` and the
\* merged state is `state`.  A Command names its successor itself.
Successor(node, state, res) ==
    CASE res.kind = "command"  -> res.goto
      [] node = "align"        -> route_after_align(state)
      [] node = "retrieve"     -> "synthesize"
      [] node = "synthesize"   -> END
      [] node = "end"          -> END
      [] OTHER                 -> END

----------------------------------------------------------------------------
(* The execution engine and the checkpoint store (spec.md 4.2, 4.3)        *)

NoInterrupt == [pending |-> FALSE]
Pending(stage, payload) == [pending |-> TRUE, stage |-> stage, payload |-> payload]

Checkpoint(values, next, interrupt) ==
    [values |-> values, next |-> next, interrupt |-> interrupt]

\* start: the zeroth checkpoint holds the inputs and points at the start stage
ZerothCheckpoint(inputs) == Checkpoint(inputs, EntryPoint, NoInterrupt)

\* One turn of the step-loop from checkpoint cp: invoke the current stage,
\* merge its update and name the checkpoint to persist.  `resume` is the
\* value a resume supplies to the suspended stage, None otherwise.
EngineStep(cp, resume, resp) ==
    LET node == cp.next
        res  == Invoke(node, cp.values, resume, resp)
    IN  CASE res.kind = "raise" ->
                [out |-> "raise", node |-> node, error |-> res.error]
          [] res.kind = "interrupt" ->
                [out |-> "interrupt", node |-> node,
                 cp |-> Checkpoint(cp.values, node, Pending(node, res.payload))]
          [] OTHER ->
                LET v == Merge(cp.values, res.update)
                IN  [out |-> "chunk", node |-> node, update |-> res.update,
                     cp |-> Checkpoint(v, Successor(node, v, res), NoInterrupt)]

\* The step-loop has nothing more to do from cp: terminal marker reached,
\* or suspended awaiting a resume.
Exhausted(cp) == cp.next = END \/ cp.interrupt.pending

\* The checkpoints a run of the graph on `inputs` writes, in order, when
\* the planner answers resp: the step-loop from the zeroth checkpoint until
\* it suspends, reaches the terminal marker or a stage raises.
RECURSIVE RunTrace(_, _)
RunTrace(cps, resp) ==
    LET cp == cps[Len(cps)]
    IN  IF Exhausted(cp) THEN cps
        ELSE LET r == EngineStep(cp, None, resp)
             IN  IF r.out = "raise" THEN cps
                 ELSE RunTrace(Append(cps, r.cp), resp)

\* The stages that completed while the checkpoints cps were written: every
\* checkpoint after the zeroth was written by the stage its predecessor
\* points at, except the one that records a suspension.
CompletedOf(cps) ==
    LET idx == {j \in 1 .. Len(cps) - 1 : ~cps[j + 1].interrupt.pending}
        RECURSIVE Build(_)
        Build(j) == IF j > Len(cps) - 1 THEN << >>
                    ELSE IF j \in idx THEN <<cps[j].next>> \o Build(j + 1)
                    ELSE Build(j + 1)
    IN  Build(1)

Latest(t) == store[t][Len(store[t])]
HasCheckpoint(t) == Len(store[t]) > 0
Suspended(t) == HasCheckpoint(t) /\ Latest(t).interrupt.pending

\* put: checkpoints are appended, never rewritten
Put(st, t, cp) == [st EXCEPT ![t] = Append(@, cp)]

\* What a call graph.stream(input, config) is given: the input is a state
\* mapping (a start), a Command(resume=value) or neither; the config names
\* the thread or is missing.
StartInput(inputs)  == [tag |-> "inputs", inputs |-> inputs]
CommandInput(value) == [tag |-> "command", resume |-> value]
EllipsisInput       == [tag |-> "ellipsis"]

\* One next() on the iterator graph.stream(call.input, call.config) made
\* against store st; `entered` tells whether the iterator already began.
\* The result names what the iterator does (raise, yield a chunk, yield an
\* "__interrupt__" chunk, stop) and the store it leaves.
\* The store is keyed by thread id: a call whose config names no thread can
\* neither load nor persist a checkpoint and fails before any stage runs.
StreamNext(call, entered, st, resp) ==
    IF ~call.config.some
    THEN [out |-> "raise", error |-> "MissingThreadId", st |-> st]
    ELSE
    LET t    == call.config.val
        has  == Len(st[t]) > 0
        last == st[t][Len(st[t])]
        Step(st1, cp, resume) ==
            LET r == EngineStep(cp, resume, resp)
            IN  CASE r.out = "raise" ->
                        [out |-> "raise", error |-> r.error, st |-> st1]
                  [] r.out = "interrupt" ->
                        [out |-> "interrupt", node |-> r.node,
                         st |-> Put(st1, t, r.cp)]
                  [] OTHER ->
                        [out |-> "chunk", node |-> r.node, update |-> r.update,
                         st |-> Put(st1, t, r.cp)]
    IN  IF entered
        THEN IF ~has \/ Exhausted(last)
             THEN [out |-> "stop", st |-> st]
             ELSE Step(st, last, None)
        ELSE CASE call.input.tag = "inputs" ->
                    Step(Put(st, t, ZerothCheckpoint(call.input.inputs)),
                         ZerothCheckpoint(call.input.inputs), None)
               [] call.input.tag = "command" ->
                    IF ~has THEN [out |-> "raise", error |-> "UnknownThread", st |-> st]
                    ELSE IF ~last.interrupt.pending
                    THEN [out |-> "raise", error |-> "NothingToResume", st |-> st]
                    ELSE Step(st, last, Some(call.input.resume))
               [] OTHER ->
                    [out |-> "raise", error |-> "InvalidInput", st |-> st]

\* graph.get_state(config): the latest checkpoint's values and interrupts;
\* an empty snapshot for a thread without checkpoint
GetState(st, t) ==
    IF Len(st[t]) = 0
    THEN [values |-> << >>, interrupts |-> << >>, empty |-> TRUE]
    ELSE LET cp == st[t][Len(st[t])]
         IN  [values |-> cp.values,
              interrupts |-> IF cp.interrupt.pending
                             THEN << cp.interrupt.payload >> ELSE << >>,
              empty |-> FALSE]

----------------------------------------------------------------------------
(* The durable store when the process starts (lifespan)                    *)

Inputs(topic, mode) == [topic |-> topic, mode |-> mode, status |-> "init"]

\* data/checkpoints.sqlite outlives the process.  A thread it holds was
\* written by the graph of build_graph run on well-formed inputs, and the
\* writing process may have been killed after any checkpoint.
SeedHistories ==
    UNION { LET full == RunTrace(<<ZerothCheckpoint(Inputs(topic, mode))>>, resp)
            IN  {SubSeq(full, 1, k) : k \in 1 .. Len(full)}
          : <<topic, mode, resp>> \in Topics \X Modes \X Responses }

----------------------------------------------------------------------------
(* app/main.py                                                             *)

Idle == [kind |-> "idle", pc |-> "idle", tid |-> 0, events |-> << >>, steps |-> << >>]

InFlight(i) == invs[i].pc \in {"start", "loop"}

Init ==
    /\ \E seed \in [SeededIds -> SeedHistories \cup {<< >>}] :
          store = [t \in ThreadIds |-> IF t \in SeededIds THEN seed[t] ELSE << >>]
    /\ executed = [t \in ThreadIds |-> CompletedOf(store[t])]
    /\ invs = [i \in Slots |-> Idle]
    /\ used = {}
    /\ restarts = 0

\* Slots are taken in order
FreeSlot(i) ==
    /\ invs[i].kind = "idle"
    /\ \A j \in Slots : j < i => invs[j].kind # "idle"

sse(event, data) == [type |-> event, data |-> data]

\* POST /runs/stream up to and including the first event of gen()
run_stream(i, topic, mode) ==
    /\ FreeSlot(i)
    /\ \E tid \in ThreadIds :
          \* uuid4(): an id no thread has
          /\ tid \notin used /\ ~HasCheckpoint(tid)
          /\ \A u \in ThreadIds : (u \notin used /\ ~HasCheckpoint(u)) => tid <= u
          /\ used' = used \cup {tid}
          /\ invs' = [invs EXCEPT ![i] =
                 [kind |-> "run", pc |-> "start", tid |-> tid,
                  inputs |-> Inputs(topic, mode), steps |-> << >>,
                  events |-> << sse("meta", [thread_id |-> tid]) >>]]
    /\ UNCHANGED <<store, executed, restarts>>

\* resume_stream with a config shared by all requests: the thread id of
\* the path reaches the meta event only
resume_stream_shared_config(i, tid, value) ==
    /\ FreeSlot(i)
    /\ invs' = [invs EXCEPT ![i] =
           [kind |-> "resume", pc |-> "start", tid |-> 1, value |-> value,
            steps |-> << >>,
            events |-> << sse("meta", [thread_id |-> tid, resuming |-> TRUE]) >>]]
    /\ UNCHANGED <<store, executed, used, restarts>>

\* POST /runs/{thread_id}/resume/stream up to and including the first event
resume_stream(i, tid, value) ==
    /\ FreeSlot(i)
    /\ invs' = [invs EXCEPT ![i] =
           [kind |-> "resume", pc |-> "start", tid |-> tid, value |-> value,
            steps |-> << >>,
            events |-> << sse("meta", [thread_id |-> tid, resuming |-> TRUE]) >>]]
    /\ UNCHANGED <<store, executed, used, restarts>>

\* the loop body with the test for "__interrupt__" lost: every dict chunk
\* is skipped
OnChunk_skip_all(events, r) == events

\* gen(), the body of the for loop: an "__interrupt__" chunk is skipped,
\* any other chunk is yielded as an update event
OnChunk(events, r) ==
    IF r.out = "interrupt" THEN events
    ELSE Append(events, sse("update", [node |-> r.node, update |-> r.update]))

\* gen(), after the for loop ended without exception: read the snapshot
\* and yield interrupt or done
OnExhausted(events, tid, st) ==
    LET snapshot == GetState(st, tid)
    IN  IF snapshot.interrupts # << >>
        THEN Append(events, sse("interrupt",
                       [thread_id |-> tid, interrupts |-> snapshot.interrupts]))
        ELSE Append(events, sse("done",
                       [thread_id |-> tid, assets |-> Get(snapshot.values, "assets")]))

\* the except branch without its return: the error event is followed by
\* the events after the loop
OnException_no_return(events, tid, st, error) ==
    OnExhausted(Append(events, sse("error", [message |-> error])), tid, st)

\* the except branch as a bare pass: the exception is swallowed and the
\* events after the loop follow
OnException_swallow(events, tid, st, error) ==
    OnExhausted(events, tid, st)

\* gen(), except Exception: yield the error event and return.  tid and st
\* are what the code after the loop would read; the handler returns
\* before it.
OnException(events, tid, st, error) ==
    Append(events, sse("error", [message |-> error]))

\* The body of gen() after the meta event, one iteration: pull the next
\* chunk of the stream `call` and handle it.  `steps` records the stages
\* whose checkpoint this generator's stream wrote.
GenStep(i, call) ==
    /\ InFlight(i)
    /\ LET inv == invs[i]
           tid == inv.tid
           nxt == IF HasCheckpoint(tid) THEN Latest(tid).next ELSE EntryPoint
       IN  \E resp \in IF nxt = "align" THEN Responses
                       ELSE {CHOOSE r \in Responses : r.net = "unreachable"} :
           \E r \in {StreamNext(call, inv.pc = "loop", store, resp)} :
               /\ store' = r.st
               /\ CASE r.out = "raise" ->
                      /\ invs' = [invs EXCEPT ![i].pc = "closed",
                                   ![i].events = OnException(@, tid, r.st, r.error)]
                      /\ UNCHANGED executed
                 [] r.out = "interrupt" ->
                      /\ invs' = [invs EXCEPT ![i].pc = "loop",
                                   ![i].events = OnChunk(@, r)]
                      /\ UNCHANGED executed
                 [] r.out = "chunk" ->
                      /\ invs' = [invs EXCEPT ![i].pc = "loop",
                                   ![i].events = OnChunk(@, r),
                                   ![i].steps = Append(@, r.node)]
                      /\ executed' = [executed EXCEPT ![tid] = Append(@, r.node)]
                 [] OTHER ->
                      /\ invs' = [invs EXCEPT ![i].pc = "closed",
                                   ![i].events = OnExhausted(@, tid, r.st)]
                      /\ UNCHANGED executed
    /\ UNCHANGED <<used, restarts>>

\* run_stream.gen: graph.stream(...) is called with the Ellipsis literal as
\* input and without config; neither inputs nor the thread id reach it.
run_stream_gen(i) ==
    /\ invs[i].kind = "run"
    /\ GenStep(i, [input |-> EllipsisInput, config |-> None])

\* resume_stream.gen: graph.stream(Command(resume=req.value), config, ...)
resume_stream_gen(i) ==
    /\ invs[i].kind = "resume"
    /\ GenStep(i, [input |-> CommandInput(invs[i].value), config |-> Some(invs[i].tid)])

\* The process is killed and started again: the generators in flight are
\* gone, data/checkpoints.sqlite is reopened as it was left.
Kill ==
    /\ restarts < MaxKills
    /\ \E i \in Slots : InFlight(i)
    /\ restarts' = restarts + 1
    /\ invs' = [i \in Slots |-> IF InFlight(i) THEN [invs[i] EXCEPT !.pc = "killed"]
                                ELSE invs[i]]
    /\ UNCHANGED <<store, executed, used>>

Next ==
    \/ \E i \in Slots, topic \in Topics, mode \in Modes : run_stream(i, topic, mode)
    \/ \E i \in Slots, tid \in ThreadIds, value \in ResumeValues : resume_stream(i, tid, value)
    \/ \E i \in Slots : run_stream_gen(i)
    \/ \E i \in Slots : resume_stream_gen(i)
    \/ Kill

Spec == Init /\ [][Next]_vars

\* Continuation of a thread whose writer is gone (spec.md 8, "resume-
\* equivalent continuation"): the step-loop takes one more turn from the
\* thread's latest checkpoint.  A thread has one writer at a time.
ContinueStep(t) ==
    /\ HasCheckpoint(t)
    /\ ~Exhausted(Latest(t))
    /\ \A i \in Slots : InFlight(i) => invs[i].tid # t
    /\ \E resp \in IF Latest(t).next = "align" THEN Responses
                    ELSE {CHOOSE r \in Responses : r.net = "unreachable"} :
       \E r \in {EngineStep(Latest(t), None, resp)} :
           /\ r.out # "raise"
           /\ store' = Put(store, t, r.cp)
           /\ executed' = IF r.out = "chunk"
                          THEN [executed EXCEPT ![t] = Append(@, r.node)]
                          ELSE executed
    /\ UNCHANGED <<invs, used, restarts>>

NextCrash ==
    \/ Next
    \/ \E t \in ThreadIds : ContinueStep(t)

SpecCrash == Init /\ [][NextCrash]_vars

\* graph.stream(...) as each generator calls it
CallOf(i) ==
    IF invs[i].kind = "run"
    THEN [input |-> EllipsisInput, config |-> None]
    ELSE [input |-> CommandInput(invs[i].value), config |-> Some(invs[i].tid)]

\* The planner is consulted by align only.
RespFor(t) ==
    IF (IF HasCheckpoint(t) THEN Latest(t).next ELSE EntryPoint) = "align"
    THEN Responses
    ELSE {CHOOSE r \in Responses : r.net = "unreachable"}

\* A pull whose put fails (spec.md 4.3, StoreIOError): the stage ran, its
\* checkpoint was not written, the exception reaches the except branch of
\* gen().
StoreFailure(i) ==
    /\ InFlight(i)
    /\ \E resp \in RespFor(invs[i].tid) :
       \E r \in {StreamNext(CallOf(i), invs[i].pc = "loop", store, resp)} :
           /\ r.out \in {"chunk", "interrupt"}
           /\ invs' = [invs EXCEPT ![i].pc = "closed",
                        ![i].events = OnException(@, invs[i].tid, store, "StoreIOError")]
    /\ UNCHANGED <<store, executed, used, restarts>>

\* the transport disconnects while a stage is in flight and the stage is
\* abandoned half-way: its update is stored, the next pointer is not moved
Disconnect_abort_stage(i) ==
    /\ InFlight(i)
    /\ \E resp \in RespFor(invs[i].tid) :
       \E r \in {StreamNext(CallOf(i), invs[i].pc = "loop", store, resp)} :
           /\ r.out = "chunk"
           /\ store' = Put(store, invs[i].tid,
                           [Latest(invs[i].tid) EXCEPT
                               !.values = Merge(@, r.update)])
           /\ invs' = [invs EXCEPT ![i].pc = "disconnected"]
    /\ UNCHANGED <<executed, used, restarts>>

\* The client transport disconnects (spec.md 5): the generator is closed
\* and yields nothing more.  Either it waits at a yield, and nothing else
\* happens, or a pull is in flight: the engine has no means to abort the
\* stage, which completes and has its checkpoint written; the chunk is
\* never delivered.
Disconnect(i) ==
    /\ InFlight(i)
    /\ \/ /\ invs' = [invs EXCEPT ![i].pc = "disconnected"]
          /\ UNCHANGED <<store, executed>>
       \/ \E resp \in RespFor(invs[i].tid) :
          \E r \in {StreamNext(CallOf(i), invs[i].pc = "loop", store, resp)} :
              /\ r.out \in {"chunk", "interrupt"}
              /\ store' = r.st
              /\ IF r.out = "chunk"
                 THEN /\ invs' = [invs EXCEPT ![i].pc = "disconnected",
                                              ![i].steps = Append(@, r.node)]
                      /\ executed' = [executed EXCEPT ![invs[i].tid] = Append(@, r.node)]
                 ELSE /\ invs' = [invs EXCEPT ![i].pc = "disconnected"]
                      /\ UNCHANGED executed
    /\ UNCHANGED <<used, restarts>>

\* The service with its environment: requests carrying any JSON value,
\* store write failures, transport disconnects, process kills and
\* continuations.  Requests are served in the first MaxEnvInv slots.
MaxEnvInv == 1
EnvSlots  == 1 .. MaxEnvInv

NextEnv ==
    \/ \E i \in EnvSlots, topic \in Topics, mode \in Modes : run_stream(i, topic, mode)
    \/ \E i \in EnvSlots, tid \in ThreadIds, value \in JsonValues : resume_stream(i, tid, value)
    \/ \E i \in EnvSlots : run_stream_gen(i)
    \/ \E i \in EnvSlots : resume_stream_gen(i)
    \/ \E i \in EnvSlots : StoreFailure(i)
    \/ \E i \in EnvSlots : Disconnect(i)
    \/ Kill
    \/ \E t \in ThreadIds : ContinueStep(t)

SpecEnv == Init /\ [][NextEnv]_vars

----------------------------------------------------------------------------
(* Vocabulary of the properties                                            *)

TerminalTypes == {"done", "interrupt", "error"}

Types(events) == [k \in DOMAIN events |-> events[k].type]

Closed(i) == invs[i].pc = "closed"

\* the positions of the events of the given types
Positions(events, types) == {k \in DOMAIN events : events[k].type \in types}

\* the nodes of the update events, in stream order
RECURSIVE UpdateNodes(_)
UpdateNodes(events) ==
    IF events = << >> THEN << >>
    ELSE LET h == events[1]
         IN  (IF h.type = "update" THEN <<h.data.node>> ELSE << >>)
             \o UpdateNodes(Tail(events))

\* the resume invocation in slot i re-entered approve_plan with its value
Resolved(i) ==
    /\ invs[i].kind = "resume"
    /\ invs[i].steps # << >>
    /\ invs[i].steps[1] = "approve_plan"

----------------------------------------------------------------------------
(* C1: a drained run or resume stream holds exactly one terminal event     *)
(* (done, interrupt or error) and it is the last event; a stream that is   *)
(* still being produced holds none.                                        *)
C1_ExactlyOneTerminal ==
    \A i \in Slots :
        LET terms == Positions(invs[i].events, TerminalTypes)
        IN  /\ Closed(i) => terms = {Len(invs[i].events)}
            /\ ~Closed(i) => terms = {}

\* a run stream that ended in error beside a resume stream that ended in done
C1_Witness ==
    \E i, j \in Slots :
        /\ invs[i].kind = "run" /\ Closed(i)
        /\ invs[i].events[Len(invs[i].events)].type = "error"
        /\ invs[j].kind = "resume" /\ Closed(j)
        /\ invs[j].events[Len(invs[j].events)].type = "done"

(* C2: a run started with mode "auto" yields no interrupt event and never  *)
(* executes approve_plan; a run started with mode "approval" yields        *)
(* exactly one interrupt event, raised by approve_plan after align         *)
(* completed, and does not end in done.                                    *)
C2_ModeDecidesInterrupt ==
    \A i \in Slots :
        (invs[i].kind = "run" /\ Closed(i)) =>
            LET ev == invs[i].events
            IN  /\ invs[i].inputs.mode = "auto" =>
                      /\ Positions(ev, {"interrupt"}) = {}
                      /\ "approve_plan" \notin SeqToSet(executed[invs[i].tid])
                /\ invs[i].inputs.mode = "approval" =>
                      /\ Cardinality(Positions(ev, {"interrupt"})) = 1
                      /\ UpdateNodes(ev) = <<"align">>
                      /\ ev[Len(ev)].type = "interrupt"

(* C9: in every stream meta is the first event and the only meta; the      *)
(* update events name, in order and once each, the stages whose checkpoint *)
(* the stream wrote; a terminal event comes after all updates and nothing  *)
(* follows it.                                                             *)
C9_EventOrder ==
    \A i \in Slots :
        invs[i].kind # "idle" =>
            LET ev == invs[i].events
            IN  /\ Positions(ev, {"meta"}) = {1}
                /\ UpdateNodes(ev) = invs[i].steps
                /\ \A k \in DOMAIN ev :
                      /\ ev[k].type \in TerminalTypes => k = Len(ev)
                      /\ ev[k].type \in {"meta", "update"} \cup TerminalTypes

\* a drained stream with two updates between meta and done
C9_Witness ==
    \E i \in Slots :
        /\ Closed(i)
        /\ Len(invs[i].steps) >= 2
        /\ Types(invs[i].events) = <<"meta", "update", "update", "update", "done">>

(* C10: a run started with mode "auto" yields exactly meta, update(align), *)
(* update(retrieve), update(synthesize), done, and done carries the assets *)
(* synthesize wrote.                                                       *)
C10_AutoRunEvents ==
    \A i \in Slots :
        (invs[i].kind = "run" /\ Closed(i) /\ invs[i].inputs.mode = "auto") =>
            LET ev == invs[i].events
            IN  /\ Types(ev) = <<"meta", "update", "update", "update", "done">>
                /\ UpdateNodes(ev) = <<"align", "retrieve", "synthesize">>
                /\ ev[Len(ev)].data.assets = Some(ev[4].data.update.assets)

\* the resume invocation in slot i makes its first pull on the stream in
\* this step (and is not merely killed)
FirstPull(i) ==
    /\ invs[i].kind = "resume"
    /\ invs[i].pc = "start"
    /\ invs'[i].pc \in {"loop", "closed"}

ErrorStream(tid, message) ==
    << sse("meta", [thread_id |-> tid, resuming |-> TRUE]),
       sse("error", [message |-> message]) >>

NoDuplicates(seq) == \A a, b \in DOMAIN seq : a # b => seq[a] # seq[b]

(* C3: a resume with value true of a thread suspended at approve_plan sets *)
(* status to "approved", executes retrieve and then synthesize, once each, *)
(* and its stream ends with a done event carrying the synthesized assets.  *)
C3_ApproveRunsToDone ==
    \A i \in Slots :
        (Resolved(i) /\ invs[i].value = JTrue /\ Closed(i)) =>
            LET ev == invs[i].events
                v  == Latest(invs[i].tid).values
            IN  /\ ev[2].data = [node |-> "approve_plan", update |-> [status |-> "approved"]]
                /\ invs[i].steps = <<"approve_plan", "retrieve", "synthesize">>
                /\ ev[Len(ev)].type = "done"
                /\ "assets" \in DOMAIN v
                /\ ev[Len(ev)].data.assets = Some(v["assets"])

(* C4: a resume with value false of a thread suspended at approve_plan     *)
(* sets status to "rejected" and routes to "end"; retrieve and synthesize  *)
(* never execute for the thread, evidence and assets stay absent, and the  *)
(* drained stream is meta, update(approve_plan), update(end), done with no *)
(* assets, the thread being at the terminal marker.                        *)
C4_RejectEndsWithoutWork ==
    \A i \in Slots :
        (Resolved(i) /\ invs[i].value = JFalse) =>
            LET t  == invs[i].tid
                ev == invs[i].events
                v  == Latest(t).values
            IN  /\ ev[2].data = [node |-> "approve_plan", update |-> [status |-> "rejected"]]
                /\ v["status"] = "rejected"
                /\ "evidence" \notin DOMAIN v
                /\ "assets" \notin DOMAIN v
                /\ SeqToSet(executed[t]) \cap {"retrieve", "synthesize"} = {}
                /\ invs[i].steps \in {<<"approve_plan">>, <<"approve_plan", "end">>}
                /\ Closed(i) =>
                      /\ invs[i].steps = <<"approve_plan", "end">>
                      /\ Latest(t).next = END
                      /\ Types(ev) = <<"meta", "update", "update", "done">>
                      /\ ev[4].data.assets = None

\* a drained resume stream that rejected the plan
C4_Witness ==
    \E i \in Slots : Resolved(i) /\ invs[i].value = JFalse /\ Closed(i)

(* C5: a resume of a thread whose latest checkpoint carries no pending     *)
(* interrupt (a second resume after the first cleared it, a finished       *)
(* auto-mode run) fails with NothingToResume as its error event, executes  *)
(* no stage, writes no checkpoint and leaves the thread's state alone.     *)
C5_NothingToResume ==
    [][ \A i \in Slots :
          (FirstPull(i) /\ HasCheckpoint(invs[i].tid) /\ ~Suspended(invs[i].tid)) =>
              /\ invs'[i].pc = "closed"
              /\ invs'[i].events = ErrorStream(invs[i].tid, "NothingToResume")
              /\ invs'[i].steps = << >>
              /\ store' = store
              /\ executed' = executed ]_vars

\* two resumes of one thread: the first cleared the interrupt and was
\* drained, the second ended in the NothingToResume error
C5_Witness ==
    \E i, j \in Slots :
        /\ i # j
        /\ invs[i].tid = invs[j].tid
        /\ Resolved(i) /\ Closed(i) /\ invs[i].events[Len(invs[i].events)].type = "done"
        /\ invs[j].kind = "resume" /\ Closed(j)
        /\ invs[j].events = ErrorStream(invs[j].tid, "NothingToResume")

(* C6: a resume of a thread id without checkpoint fails with UnknownThread *)
(* as its error event, executes no stage and creates no checkpoint.        *)
C6_UnknownThread ==
    [][ \A i \in Slots :
          (FirstPull(i) /\ ~HasCheckpoint(invs[i].tid)) =>
              /\ invs'[i].pc = "closed"
              /\ invs'[i].events = ErrorStream(invs[i].tid, "UnknownThread")
              /\ invs'[i].steps = << >>
              /\ store' = store
              /\ executed' = executed ]_vars

\* a drained resume of a thread id the store does not hold
C6_Witness ==
    \E i \in Slots :
        /\ invs[i].kind = "resume" /\ Closed(i)
        /\ ~HasCheckpoint(invs[i].tid)
        /\ invs[i].events = ErrorStream(invs[i].tid, "UnknownThread")

(* C7: every completed stage has its checkpoint with the merged result,    *)
(* written before the next stage starts; across kills at stage boundaries  *)
(* and continuations from the latest checkpoint no stage completes twice,  *)
(* no completed stage's result is lost, and the latest checkpoint points   *)
(* exactly at the stage after the last completed one.                      *)
C7_CrashSafe ==
    \A t \in ThreadIds :
        HasCheckpoint(t) =>
            LET h   == store[t]
                ex  == executed[t]
                cp  == Latest(t)
                v   == cp.values
                sus == {k \in DOMAIN h : h[k].interrupt.pending}
            IN  /\ NoDuplicates(ex)
                /\ Len(h) = 1 + Len(ex) + Cardinality(sus)
                /\ "align" \in SeqToSet(ex) => "plan" \in DOMAIN v
                /\ "retrieve" \in SeqToSet(ex) =>
                      "evidence" \in DOMAIN v /\ v["evidence"] = Evidence
                /\ "synthesize" \in SeqToSet(ex) => "assets" \in DOMAIN v
                /\ IF ex = << >> THEN cp.next = "align"
                   ELSE LET last == ex[Len(ex)]
                        IN  CASE last = "align" ->
                                    cp.next = IF v["mode"] = "approval"
                                              THEN "approve_plan" ELSE "retrieve"
                              [] last = "approve_plan" ->
                                    cp.next = IF v["status"] = "approved"
                                              THEN "retrieve" ELSE "end"
                              [] last = "retrieve" -> cp.next = "synthesize"
                              [] OTHER -> cp.next = END

\* a resume stream was killed right after the checkpoint of retrieve, and
\* the continuation completed synthesize
C7_Witness ==
    \E i \in Slots :
        /\ invs[i].pc = "killed"
        /\ invs[i].steps = <<"approve_plan", "retrieve">>
        /\ executed[invs[i].tid] = <<"align", "approve_plan", "retrieve", "synthesize">>
        /\ Len(store[invs[i].tid]) = 6

(* C8: a thread suspended by approve_plan has the pending interrupt with   *)
(* its payload and requesting stage in its latest checkpoint; until a      *)
(* resume for that thread makes its first pull, no stage executes for it   *)
(* and its checkpoints do not change, across process restarts too; and     *)
(* approve_plan completes only inside a resume.                            *)
C8_SuspendedUntilResume ==
    [][ \A t \in ThreadIds :
          /\ Suspended(t) =>
                /\ Latest(t).next = "approve_plan"
                /\ Latest(t).interrupt.stage = "approve_plan"
                /\ Latest(t).interrupt.payload =
                       [type |-> "approve_plan", plan |-> Latest(t).values["plan"]]
                /\ (store'[t] # store[t] \/ executed'[t] # executed[t]) =>
                       \E i \in Slots : FirstPull(i) /\ invs[i].tid = t
          /\ "approve_plan" \in SeqToSet(executed[t]) =>
                \E i \in Slots : Resolved(i) /\ invs[i].tid = t ]_vars

\* a thread still suspended after the process was killed and a stream of
\* another thread was drained
C8_Witness ==
    \E t \in ThreadIds, i \in Slots :
        /\ Suspended(t)
        /\ restarts = 1
        /\ Closed(i) /\ invs[i].kind = "resume" /\ invs[i].tid # t
        /\ Resolved(i)

\* the evidence list of a state; state.get("evidence") or []
EvidenceOf(v) == IF "evidence" \in DOMAIN v THEN v["evidence"] ELSE << >>

(* C11: in every checkpoint whose state holds assets, every citation of    *)
(* assets.citations has a ref_id i with 0 <= i < len(evidence), its title  *)
(* and locator are those of evidence[i], and every evidence block has      *)
(* exactly one citation.                                                   *)
C11_CitationsNeverDangle ==
    \A t \in ThreadIds : \A k \in DOMAIN store[t] :
        LET v == store[t][k].values
        IN  "assets" \in DOMAIN v =>
                LET cs == v["assets"]["citations"].list
                    ev == EvidenceOf(v)
                IN  /\ \A c \in DOMAIN cs :
                          /\ cs[c].ref_id \in 0 .. Len(ev) - 1
                          /\ cs[c].title = ev[cs[c].ref_id + 1].title
                          /\ cs[c].locator = ev[cs[c].ref_id + 1].locator
                    /\ \A e \in DOMAIN ev :
                          Cardinality({c \in DOMAIN cs : cs[c].ref_id = e - 1}) = 1

\* an approved resume ran synthesize and the thread holds two citations
C11_Witness ==
    \E i \in EnvSlots :
        /\ Closed(i) /\ Resolved(i)
        /\ invs[i].steps = <<"approve_plan", "retrieve", "synthesize">>
        /\ "assets" \in DOMAIN Latest(invs[i].tid).values
        /\ Len(Latest(invs[i].tid).values["assets"]["citations"].list) = 2

\* the values status took in the checkpoints of thread t
Statuses(t) == {store[t][k].values["status"] : k \in DOMAIN store[t]}

\* how often stage n completed for thread t
Times(t, n) == Cardinality({k \in DOMAIN executed[t] : executed[t][k] = n})

\* the resume invocation in slot i made its first pull
Pulled(i) == invs[i].kind = "resume" /\ invs[i].pc # "start" /\
             (invs[i].pc = "killed" => invs[i].steps # << >>)

(* C12: under every interleaving of two resume calls on one suspended      *)
(* thread the approve_plan decision is applied at most once: only one of   *)
(* the calls re-enters approve_plan, status takes exactly one of           *)
(* "approved"/"rejected" (the one the value of that call decides),         *)
(* approve_plan, retrieve and synthesize complete at most once, and the    *)
(* other call, arriving after the interrupt was cleared, ends in the       *)
(* NothingToResume error without effect; once resolved, the interrupt does *)
(* not appear in the thread's state again.                                 *)
C12_ResolvedOnce ==
    /\ \A t \in ThreadIds :
          /\ ~({"approved", "rejected"} \subseteq Statuses(t))
          /\ \A n \in {"approve_plan", "retrieve", "synthesize"} : Times(t, n) <= 1
    /\ \A i \in Slots : Resolved(i) => ~Suspended(invs[i].tid)
    /\ \A i, j \in Slots :
          (i # j /\ invs[i].kind = "resume" /\ invs[j].kind = "resume"
                 /\ invs[i].tid = invs[j].tid /\ Resolved(i)) =>
              /\ ~Resolved(j)
              /\ (IF invs[i].value = JTrue THEN "approved" ELSE "rejected")
                     \in Statuses(invs[i].tid)
              /\ Pulled(j) =>
                    /\ invs[j].pc = "closed"
                    /\ invs[j].events = ErrorStream(invs[j].tid, "NothingToResume")

\* a resume with false and a resume with true of one suspended thread,
\* both in flight at once: the rejection was applied, the approval was
\* refused while the rejecting stream was still being produced
C12_Witness ==
    \E i, j \in Slots :
        /\ i < j
        /\ invs[i].kind = "resume" /\ invs[j].kind = "resume"
        /\ invs[i].tid = invs[j].tid
        /\ invs[i].value = JTrue /\ invs[j].value = JFalse
        /\ Resolved(j) /\ invs[j].pc = "loop"
        /\ invs[i].events = ErrorStream(invs[i].tid, "NothingToResume")
        /\ Statuses(invs[i].tid) \cap {"approved", "rejected"} = {"rejected"}

\* the generator in slot i pulls a chunk in this step (it is neither
\* killed nor disconnected)
Pull(i) ==
    /\ InFlight(i)
    /\ invs'[i] # invs[i]
    /\ invs'[i].pc \in {"loop", "closed"}

\* the value the stage of the next pull of slot i receives from interrupt()
ResumeOf(i) == IF invs[i].pc = "start" THEN Some(invs[i].value) ELSE None

\* the next pull of the resume in slot i runs a stage, and the stage raises
StageRaises(i) ==
    /\ invs[i].kind = "resume" /\ InFlight(i)
    /\ HasCheckpoint(invs[i].tid)
    /\ IF invs[i].pc = "start" THEN Suspended(invs[i].tid)
       ELSE ~Exhausted(Latest(invs[i].tid))
    /\ \A resp \in RespFor(invs[i].tid) :
          Invoke(Latest(invs[i].tid).next, Latest(invs[i].tid).values,
                 ResumeOf(i), resp).kind = "raise"

LastEvent(i) == invs[i].events[Len(invs[i].events)]

(* C13: when the stage a pull runs raises, the stream gets one error event *)
(* with the exception's message and is closed; and whenever a stream is    *)
(* closed by an error event (a stage, the store on put, the engine's       *)
(* checks), that event is its only terminal event, no done or interrupt    *)
(* follows, and the step writes no checkpoint and completes no stage: the  *)
(* thread stays at the last checkpoint written before the failure.         *)
C13_FailureKeepsLastCheckpoint ==
    [][ \A i \in Slots :
          /\ (StageRaises(i) /\ Pull(i)) =>
                \E resp \in RespFor(invs[i].tid) :
                    invs'[i].events =
                        Append(invs[i].events,
                               sse("error",
                                   [message |->
                                      Invoke(Latest(invs[i].tid).next,
                                             Latest(invs[i].tid).values,
                                             ResumeOf(i), resp).error]))
          /\ (Pull(i) /\ invs'[i].events[Len(invs'[i].events)].type = "error") =>
                /\ invs'[i].pc = "closed"
                /\ Len(invs'[i].events) = Len(invs[i].events) + 1
                /\ Positions(invs'[i].events, TerminalTypes) = {Len(invs'[i].events)}
                /\ store' = store
                /\ executed' = executed ]_vars

\* an approving resume whose synthesize raised after approve_plan and
\* retrieve had their checkpoints: the thread stays in front of synthesize
C13_Witness ==
    \E i \in EnvSlots :
        /\ Closed(i) /\ Resolved(i)
        /\ invs[i].steps = <<"approve_plan", "retrieve">>
        /\ LastEvent(i) = sse("error", [message |-> "AttributeError"])
        /\ Latest(invs[i].tid).next = "synthesize"
        /\ "assets" \notin DOMAIN Latest(invs[i].tid).values
        /\ Len(store[invs[i].tid]) = 5

\* the planner is unreachable, answers an HTTP error, or answers a content
\* that is no JSON text
PlannerFailure(resp) ==
    \/ resp.net # "ok"
    \/ resp.status >= 400
    \/ resp.content \notin {"{\"deliverables\": [\"concept_map\", \"citations\"]}", "{}", "42"}

StageErrors == {"KeyError", "AttributeError", "ConnectionError", "HTTPError",
                "JSONDecodeError"}

(* C14: whatever the planner answers, align completes: from every          *)
(* checkpoint in front of align the stage yields an update of plan and     *)
(* status only, with status "planned_fallback" and the default plan        *)
(* (deliverables issue_tree, timeline, controversy_map, citations) when    *)
(* the planner failed and "planned" otherwise, and the next stage is the   *)
(* one the mode selects, the same as after a successful plan; and no       *)
(* stream of a thread planned by the fallback ends in a stage's error.     *)
C14_PlannerFailureFallsBack ==
    /\ \A t \in ThreadIds :
          (HasCheckpoint(t) /\ Latest(t).next = "align") =>
              \A resp \in Responses :
                  LET r == EngineStep(Latest(t), None, resp)
                  IN  /\ r.out = "chunk"
                      /\ DOMAIN r.update = {"plan", "status"}
                      /\ r.cp.next = IF Latest(t).values["mode"] = "approval"
                                     THEN "approve_plan" ELSE "retrieve"
                      /\ ~r.cp.interrupt.pending
                      /\ IF PlannerFailure(resp)
                         THEN /\ r.update["status"] = "planned_fallback"
                              /\ r.update["plan"].json = "object"
                              /\ r.update["plan"].deliverables =
                                   <<"issue_tree", "timeline", "controversy_map", "citations">>
                              /\ r.update["plan"].topic = Latest(t).values["topic"]
                         ELSE r.update["status"] = "planned"
    /\ \A t \in ThreadIds :
          Len(store[t]) >= 2 =>
              /\ "plan" \in DOMAIN store[t][2].values
              /\ store[t][2].values["status"] \in {"planned", "planned_fallback"}
              /\ store[t][2].values["status"] = "planned_fallback" =>
                    \A i \in Slots :
                        (invs[i].kind # "idle" /\ invs[i].tid = t) =>
                            \A k \in DOMAIN invs[i].events :
                                invs[i].events[k].type = "error" =>
                                    invs[i].events[k].data.message \notin StageErrors

\* the planner was unreachable, align fell back, and the thread went on
\* through the approval to done
C14_Witness ==
    \E i \in EnvSlots :
        /\ Closed(i) /\ Resolved(i)
        /\ LastEvent(i).type = "done"
        /\ store[invs[i].tid][2].values["status"] = "planned_fallback"
        /\ store[invs[i].tid][2].values["plan"].planner_error = "ConnectionError"
        /\ "assets" \in DOMAIN Latest(invs[i].tid).values

\* the thread id the stream in slot i announced in its meta event
MetaThread(i) == invs[i].events[1].data.thread_id

\* the store with no thread but t
Alone(t) == [u \in ThreadIds |-> IF u = t THEN store[t] ELSE << >>]

\* the events of slot i after a pull with outcome r
EventsAfter(i, r) ==
    CASE r.out = "raise" -> OnException(invs[i].events, invs[i].tid, r.st, r.error)
      [] r.out = "stop"  -> OnExhausted(invs[i].events, invs[i].tid, r.st)
      [] OTHER           -> OnChunk(invs[i].events, r)

(* C15: a step changes the checkpoints and completed stages of a thread    *)
(* only when a stream announced for that thread pulls; a pull changes one  *)
(* thread and one stream; and what it writes and yields is what it would   *)
(* write and yield were its thread the only one in the store, so starts,   *)
(* stages, interrupts and resumes of other threads never show in it.       *)
C15_ThreadsIsolated ==
    [][ /\ \A t \in ThreadIds :
              (store'[t] # store[t] \/ executed'[t] # executed[t]) =>
                  \E i \in Slots : Pull(i) /\ MetaThread(i) = t
        /\ \A i \in Slots :
              Pull(i) =>
                  /\ \A j \in Slots : j # i => invs'[j] = invs[j]
                  /\ \A u \in ThreadIds : u # MetaThread(i) => store'[u] = store[u]
                  /\ \E resp \in RespFor(MetaThread(i)) :
                     \E r \in {StreamNext(CallOf(i), invs[i].pc = "loop",
                                          Alone(MetaThread(i)), resp)} :
                         /\ store'[MetaThread(i)] = r.st[MetaThread(i)]
                         /\ invs'[i].events = EventsAfter(i, r) ]_vars

\* two suspended threads resumed at once: the second stream approved its
\* thread and was drained while the first, which rejected its own, was
\* still being produced
C15_Witness ==
    \E i, j \in Slots :
        /\ i < j
        /\ invs[i].tid # invs[j].tid
        /\ Resolved(i) /\ invs[i].pc = "loop" /\ invs[i].value = JFalse
        /\ Resolved(j) /\ Closed(j) /\ invs[j].value = JTrue
        /\ LastEvent(j).type = "done"
        /\ Latest(invs[i].tid).values["status"] = "rejected"
        /\ Latest(invs[j].tid).values["status"] = "done"

Disconnected(i) == invs[i].pc = "disconnected"

(* C16: when the transport disconnects while a stream is produced, the     *)
(* stream yields nothing more; a stage in flight completes and its         *)
(* checkpoint is written, or nothing is written at all; and every write to *)
(* a thread, the continuation after a disconnect included, appends to the  *)
(* thread's latest checkpoint the checkpoint of one whole stage, so the    *)
(* latest checkpoint is always at a stage boundary.                        *)
C16_CancelAtBoundary ==
    [][ /\ \A i \in Slots :
              /\ (InFlight(i) /\ invs'[i].pc = "disconnected") =>
                    /\ invs'[i].events = invs[i].events
                    /\ \/ store' = store /\ executed' = executed
                       \/ \E resp \in RespFor(invs[i].tid) :
                          \E r \in {EngineStep(Latest(invs[i].tid), ResumeOf(i), resp)} :
                              /\ r.out # "raise"
                              /\ store' = Put(store, invs[i].tid, r.cp)
                              /\ executed' =
                                    IF r.out = "chunk"
                                    THEN [executed EXCEPT ![invs[i].tid] = Append(@, r.node)]
                                    ELSE executed
              /\ Disconnected(i) => invs'[i] = invs[i]
        /\ \A t \in ThreadIds :
              store'[t] # store[t] =>
                  /\ HasCheckpoint(t)
                  /\ \E resp \in RespFor(t) :
                     \E resume \in {None} \cup {Some(v) : v \in JsonValues} :
                     \E r \in {EngineStep(Latest(t), resume, resp)} :
                         /\ r.out # "raise"
                         /\ store'[t] = Append(store[t], r.cp) ]_vars

\* the transport went away while approve_plan was in flight: the stage
\* completed with its checkpoint, its update was never delivered, and the
\* continuation went on from retrieve to the terminal marker
C16_Witness ==
    \E i \in EnvSlots :
        /\ Disconnected(i)
        /\ invs[i].steps = <<"approve_plan">>
        /\ UpdateNodes(invs[i].events) = << >>
        /\ executed[invs[i].tid] = <<"align", "approve_plan", "retrieve", "synthesize">>
        /\ Latest(invs[i].tid).next = END

\* the stage pointers of the checkpoints of thread t, in order
Pointers(t) == [k \in DOMAIN store[t] |-> store[t][k].next]

(* C17: every thread starts at align, and every move of its stage pointer  *)
(* from one checkpoint to the next is an edge of the graph: align to       *)
(* approve_plan exactly when mode is "approval" and to retrieve for every  *)
(* other mode, approve_plan to retrieve or end (or it stays, suspended),   *)
(* retrieve to synthesize, synthesize and end to the terminal marker; the  *)
(* router returns approve_plan or retrieve on every state and              *)
(* approve_plan names retrieve or end for every resume value.              *)
C17_OnlyGraphEdges ==
    \A t \in ThreadIds :
        /\ HasCheckpoint(t) => Pointers(t)[1] = "align"
        /\ \A k \in DOMAIN store[t] :
              LET v    == store[t][k].values
                  from == store[t][k].next
              IN  /\ route_after_align(v) \in {"approve_plan", "retrieve"}
                  /\ route_after_align(v) = "approve_plan" <=> v["mode"] = "approval"
                  /\ "plan" \in DOMAIN v =>
                        \A value \in JsonValues :
                            /\ approve_plan_node(v, Some(value)).kind = "command"
                            /\ approve_plan_node(v, Some(value)).goto \in {"retrieve", "end"}
                  /\ k < Len(store[t]) =>
                        LET to == store[t][k + 1].next
                        IN  CASE from = "align" ->
                                    to = IF v["mode"] = "approval"
                                         THEN "approve_plan" ELSE "retrieve"
                              [] from = "approve_plan" ->
                                    IF store[t][k + 1].interrupt.pending
                                    THEN to = "approve_plan"
                                    ELSE to \in {"retrieve", "end"}
                              [] from = "retrieve"   -> to = "synthesize"
                              [] from = "synthesize" -> to = END
                              [] from = "end"        -> to = END
                              [] OTHER               -> FALSE

\* a thread of mode "manual" went align, retrieve, synthesize, terminal,
\* and a rejecting resume took another from approve_plan over end to the
\* terminal marker
C17_Witness ==
    \E t \in ThreadIds, i \in EnvSlots :
        /\ HasCheckpoint(t)
        /\ Latest(t).values["mode"] = "manual"
        /\ Pointers(t) = <<"align", "retrieve", "synthesize", END>>
        /\ Resolved(i) /\ Closed(i) /\ invs[i].tid # t
        /\ Pointers(invs[i].tid) =
               <<"align", "approve_plan", "approve_plan", "end", END>>

(* C18: over the lifetime of a thread each stage completes at most once;   *)
(* the step loop of every invocation (a run, or a resume that re-entered   *)
(* approve_plan) executes at most as many stages as the graph has and,     *)
(* once its stream is drained, has left the thread suspended at            *)
(* approve_plan or at the terminal marker; and the terminal marker is the  *)
(* pointer of no checkpoint but the latest, so nothing runs after it.      *)
C18_ExactlyOnceAndTerminates ==
    /\ \A t \in ThreadIds :
          /\ NoDuplicates(executed[t])
          /\ \A k \in DOMAIN store[t] : store[t][k].next = END => k = Len(store[t])
    /\ \A i \in Slots :
          /\ Len(invs[i].steps) <= Cardinality(Nodes)
          /\ (Closed(i) /\ (invs[i].kind = "run" \/ Resolved(i))) =>
                /\ HasCheckpoint(invs[i].tid)
                /\ \/ /\ Suspended(invs[i].tid)
                      /\ Latest(invs[i].tid).next = "approve_plan"
                   \/ Latest(invs[i].tid).next = END

\* the checkpoint approve_plan wrote for thread t when it was resumed: the
\* one after the checkpoint that records the suspension
Decided(t) ==
    LET k == CHOOSE k \in DOMAIN store[t] : store[t][k].interrupt.pending
    IN  store[t][k + 1]

(* C19: a resume that re-enters approve_plan approves only with the JSON   *)
(* value true; with false, null, the number 1, the string "true" or an     *)
(* object the stage sets status to "rejected" and routes to end, and       *)
(* retrieve and synthesize never execute for the thread, which holds       *)
(* neither evidence nor assets.                                            *)
C19_OnlyTrueApproves ==
    \A i \in Slots :
        Resolved(i) =>
            LET t  == invs[i].tid
                cp == Decided(t)
            IN  IF invs[i].value = [t |-> "bool", b |-> TRUE]
                THEN /\ cp.values["status"] = "approved"
                     /\ cp.next = "retrieve"
                ELSE /\ cp.values["status"] = "rejected"
                     /\ cp.next = "end"
                     /\ Latest(t).values["status"] = "rejected"
                     /\ Latest(t).next \in {"end", END}
                     /\ SeqToSet(executed[t]) \cap {"retrieve", "synthesize"} = {}
                     /\ DOMAIN Latest(t).values \cap {"evidence", "assets"} = {}

\* a resume with the string "true" was drained: the plan was rejected and
\* the stream ended in done without assets
C19_Witness ==
    \E i \in EnvSlots :
        /\ Resolved(i) /\ Closed(i)
        /\ invs[i].value = JStrTrue
        /\ invs[i].steps = <<"approve_plan", "end">>
        /\ Latest(invs[i].tid).values["status"] = "rejected"
        /\ LastEvent(i) = sse("done", [thread_id |-> invs[i].tid, assets |-> None])

\* the fields in which the states a and b differ
Changed(a, b) ==
    {f \in DOMAIN a \cup DOMAIN b :
        f \notin DOMAIN a \/ f \notin DOMAIN b \/ a[f] # b[f]}

\* the fields each stage may write
Writes(stage) ==
    CASE stage = "align"        -> {"plan", "status"}
      [] stage = "approve_plan" -> {"status"}
      [] stage = "retrieve"     -> {"evidence", "status"}
      [] stage = "synthesize"   -> {"assets", "status"}
      [] OTHER                  -> {}

(* C20: from one checkpoint of a thread to the next no field is removed,   *)
(* topic and mode keep their values, a suspension changes no field, and    *)
(* the stage that ran changed only its own fields: align plan and status,  *)
(* approve_plan status, retrieve evidence and status, synthesize assets    *)
(* and status, "end" nothing.                                              *)
C20_StagesWriteOwnFields ==
    \A t \in ThreadIds :
        \A k \in 1 .. Len(store[t]) - 1 :
            LET a == store[t][k].values
                b == store[t][k + 1].values
            IN  /\ DOMAIN a \subseteq DOMAIN b
                /\ b["topic"] = a["topic"]
                /\ b["mode"] = a["mode"]
                /\ IF store[t][k + 1].interrupt.pending
                   THEN Changed(a, b) = {}
                   ELSE Changed(a, b) \subseteq Writes(store[t][k].next)

\* a rejecting resume ran approve_plan and "end": approve_plan changed the
\* status, "end" left the state as it was
C20_Witness ==
    \E i \in EnvSlots :
        /\ Resolved(i) /\ Closed(i)
        /\ invs[i].steps = <<"approve_plan", "end">>
        /\ Len(store[invs[i].tid]) = 5
        /\ Changed(store[invs[i].tid][3].values, store[invs[i].tid][4].values) = {"status"}
        /\ store[invs[i].tid][5].values = store[invs[i].tid][4].values
        /\ "plan" \in DOMAIN Latest(invs[i].tid).values

====
